---------------------------- MODULE Spec2Model ----------------------------
(***************************************************************************)
(* Model of the UCI dataset crawler (src/source/crawler.py) and downloader *)
(* (src/source/engine/downloader.py).                                      *)
(*                                                                         *)
(* Text is modelled as a sequence of tokens.  Every character the code     *)
(* inspects on its own ("/", ".", "?", " ", "#", "-", "_", "!") is a token *)
(* of its own; a run of other characters may be one token ("dataset").     *)
(* The number of characters of a token is Len(token).                      *)
(***************************************************************************)
EXTENDS Naturals, Sequences, FiniteSets, Bags, TLC

VARIABLES
    \* get_dataset_links (crawler.py)
    skip, all_links, links, pages, l_pc,
    \* parse_dataset_page (crawler.py)
    p_input, p_result,
    \* get_direct_download_link (downloader.py)
    r_input, r_result,
    \* the extension rule of download_datasets (downloader.py)
    e_link, e_ext,
    \* download_datasets (downloader.py)
    metadata, index, disk, disk0, successful_downloads, log, last, d_pc

listerVars  == <<skip, all_links, links, pages, l_pc>>
parseVars   == <<p_input, p_result>>
resolveVars == <<r_input, r_result>>
extVars     == <<e_link, e_ext>>
dlVars      == <<metadata, index, disk, disk0, successful_downloads, log, last, d_pc>>
vars        == <<listerVars, parseVars, resolveVars, extVars, dlVars>>

---------------------------------------------------------------------------
(* Bounds of the model *)

\* most listing pages one run of get_dataset_links fetches
MaxPages == 3
\* number of distinct dataset ids the listing pages draw their links from
MaxIds == 3
\* most anchors of a detail page handed to get_direct_download_link
MaxAnchors == 2
\* most records of the metadata table handed to download_datasets
MaxRecords == 2

---------------------------------------------------------------------------
(* Text helpers: Python's str operations on token sequences *)

Range(s) == {s[i] : i \in 1..Len(s)}

\* str.startswith(p)
StartsWith(s, p) == Len(s) >= Len(p) /\ SubSeq(s, 1, Len(p)) = p

\* p in s
Contains(s, p) ==
    \E i \in 1..(Len(s) + 1) : i + Len(p) - 1 <= Len(s) /\ SubSeq(s, i, i + Len(p) - 1) = p

\* position of the first token equal to c at or after position i, 0 when none
RECURSIVE IndexFrom(_, _, _)
IndexFrom(s, c, i) ==
    IF i > Len(s) THEN 0
    ELSE IF s[i] = c THEN i
    ELSE IndexFrom(s, c, i + 1)

\* str.split(c) for a one-character separator c: the list of pieces
RECURSIVE Split(_, _)
Split(s, c) ==
    LET k == IndexFrom(s, c, 1) IN
    IF k = 0 THEN <<s>>
    ELSE <<SubSeq(s, 1, k - 1)>> \o Split(SubSeq(s, k + 1, Len(s)), c)

\* len(s) in characters
RECURSIVE CharLen(_)
CharLen(s) == IF s = <<>> THEN 0 ELSE Len(Head(s)) + CharLen(Tail(s))

\* the last element of a non-empty list: s[-1]
Last(s) == s[Len(s)]

---------------------------------------------------------------------------
(* Constants of the program *)

BASE_URL == <<"https:", "/", "/", "archive", ".", "ics", ".", "uci", ".", "edu">>
take == 20

---------------------------------------------------------------------------
(* get_dataset_links: the listing pages the site may answer with *)

IdTok == <<"53", "2", "17", "45", "109", "186">>

\* the href of a dataset card: /dataset/{id}/{slug}
DatasetHref(id) == <<"/", "dataset", "/", id, "/", "slug">>

\* anchors a listing page also carries: the listing itself, a two-segment and a
\* four-segment dataset path, another site page, and an absolute dataset link
OtherAnchors ==
    << <<"/", "datasets">>,
       <<"/", "dataset", "/", "53">>,
       <<"/", "dataset", "/", "53", "/", "slug", "/", "files">>,
       <<"/", "about">>,
       BASE_URL \o <<"/", "dataset", "/", "53", "/", "slug">> >>

\* a page with n dataset cards whose ids cycle through m ids starting at base
Page(n, base, m, other) ==
    (IF other THEN OtherAnchors ELSE <<>>)
    \o [i \in 1..n |-> DatasetHref(IdTok[((base + i - 1) % m) + 1])]

PageSizes == {0, 1, take - 1, take, take + 1}

\* how the ids of a page's cards run, and whether the page has other anchors
PageVariants ==
    { [base |-> 0, m |-> 1, other |-> FALSE],
      [base |-> 0, m |-> MaxIds, other |-> TRUE],
      [base |-> 1, m |-> MaxIds, other |-> FALSE] }

ListingPages ==
    {Page(n, v.base, v.m, v.other) : n \in PageSizes, v \in PageVariants}

\* the outcome of requests.get + raise_for_status on a listing page; an HTTP
\* error answer has a body too, which the code never reads
ListingResponses ==
    [status : {"ok"}, hrefs : ListingPages]
    \cup {[status |-> "HTTPError", hrefs |-> Page(take, 0, MaxIds, FALSE)],
          [status |-> "ConnectionError", hrefs |-> <<>>]}

\* soup.select("a[href^='/dataset/']")
DatasetCards(hrefs) == SelectSeq(hrefs, LAMBDA h : StartsWith(h, <<"/", "dataset", "/">>))

\* [segment for segment in href.split('/') if segment]
PathSegments(href) == SelectSeq(Split(href, "/"), LAMBDA seg : seg # <<>>)

\* the page_links of one page
PageLinks(hrefs) ==
    LET keep(h) == LET ps == PathSegments(h) IN Len(ps) = 3 /\ ps[1] = <<"dataset">>
        cards == SelectSeq(DatasetCards(hrefs), keep)
    IN [i \in 1..Len(cards) |-> BASE_URL \o cards[i]]

\* faulty variant of ShortPage: the unique links of the page are counted
ShortPageUnique(page_links) ==
    page_links = <<>> \/ Cardinality(Range(page_links)) < take

\* if not page_links or len(page_links) < take
ShortPage(page_links) ==
    page_links = <<>> \/ Len(page_links) < take

\* list(all_links): every element once, in an order the set decides
ListOfSet(S) == SetToBag(S)

IdleLister ==
    /\ skip = 0 /\ all_links = {} /\ links = EmptyBag /\ pages = <<>> /\ l_pc = "idle"

InitLister ==
    /\ skip = 0
    /\ all_links = {}
    /\ links = EmptyBag
    /\ pages = <<>>
    /\ l_pc = "loop"

\* one pass of the while loop of get_dataset_links, with the return that
\* follows a break
get_dataset_links ==
    /\ l_pc = "loop"
    /\ Len(pages) < MaxPages
    /\ \E resp \in ListingResponses :
        LET page_links == IF resp.status = "ok" THEN PageLinks(resp.hrefs) ELSE <<>>
            merged     == all_links \cup Range(page_links)
            stop       == resp.status # "ok" \/ ShortPage(page_links)
        IN  /\ pages' = Append(pages, [skip |-> skip, status |-> resp.status, hrefs |-> resp.hrefs])
            /\ all_links' = merged
            /\ skip' = IF stop THEN skip ELSE skip + take
            /\ l_pc' = IF stop THEN "returned" ELSE "loop"
            /\ links' = IF stop THEN ListOfSet(merged) ELSE links
    /\ UNCHANGED <<parseVars, resolveVars, extVars, dlVars>>

---------------------------------------------------------------------------
(* parse_dataset_page *)

\* An optional element (None or an element) is a list of at most one text.
None == <<>>
Some(t) == <<t>>

IsSpace(c) == c \in {" ", "\n", "\t"}

\* str.strip()
RECURSIVE LStrip(_)
LStrip(s) == IF s # <<>> /\ IsSpace(Head(s)) THEN LStrip(Tail(s)) ELSE s
RECURSIVE RStrip(_)
RStrip(s) == IF s # <<>> /\ IsSpace(Last(s)) THEN RStrip(SubSeq(s, 1, Len(s) - 1)) ELSE s
Strip(s) == RStrip(LStrip(s))

NA == <<"N", "/", "A">>
ParseErrorText == <<"Error", " ", "during", " ", "parsing", ".">>
KeyName == <<"name">>
KeyUrl == <<"url">>
KeyDescription == <<"description">>

\* the exceptions of requests (subclasses of requests.RequestException) and the
\* other exceptions (subclasses of Exception) the body of the try can raise
RequestExceptions == {"ConnectionError", "HTTPError", "Timeout"}
OtherExceptions == {"AttributeError", "TypeError"}

\* detail pages: what each selector of parse_dataset_page finds on the page
PageUrl == BASE_URL \o <<"/", "dataset", "/", "53", "/", "iris">>
H1Choices == {None, Some(<<" ", "Iris", "\n">>), Some(<<"name">>)}
DtChoices ==
    { <<>>,
      << <<"Instances">> >>,
      << <<"#", " ", "Instances">>, <<" ", "Subject", " ", "Area", " ">> >>,
      << <<"name">>, <<>>, <<"#", " ">> >> }
DdChoices(tag) ==
    { <<>>,
      << <<tag, "1">> >>,
      << <<"-">>, <<" ", tag, "2", " ">>, <<tag, "3">> >> }
GridChoices ==
    { <<>>,
      << [header |-> Some(<<"Instances">>), value |-> Some(<<"c", "1">>)] >>,
      << [header |-> None, value |-> Some(<<"c", "1">>)],
         [header |-> Some(<<"#", " ", "Features">>), value |-> Some(<<"c", "2">>)],
         [header |-> Some(<<"Tasks">>), value |-> None] >> }

\* the grid divs that have a header, in document order
GridHeaders(grid) == SelectSeq(grid, LAMBDA d : d.header # None)

\* What the selectors can find on one and the same document:
\*   - a grid header is an <h1>, so a page with one has a first <h1>;
\*   - parent is the <div> around the first <h1>, sibling and classp are
\*     looked for from that <div>;
\*   - dl_dts and dl_dds are the <dt> and <dd> of the first <dl>.
Consistent(in) ==
    /\ in.h1 = None => (GridHeaders(in.grid) = <<>> /\ ~in.parent)
    /\ ~in.parent => (in.sibling = None /\ in.classp = None)
    /\ ~in.dl => (in.dl_dts = <<>> /\ in.dl_dds = <<>>)

\* where the body of the try raises, if it does:
\*   fetch   requests.get / raise_for_status  (lines 94-95)
\*   soup    BeautifulSoup(...)               (line 96, before name is set)
\*   fields  the extraction of the fields     (lines 114-153, after name is set)
\* pages whose first <h1> is a title (or that have no <h1>)
TitledPages ==
    [ raises  : {"no"},
      exc     : {"none"},
      h1      : H1Choices,
      parent  : BOOLEAN,
      sibling : {None, Some(<<" ", "Iris", " ", "flowers", ".">>)},
      classp  : {None},
      dl      : BOOLEAN,
      dl_dts  : DtChoices,
      dl_dds  : DdChoices("a"),
      cls_dts : {<<>>, << <<"Instances">> >>},
      cls_dds : {<<>>, << <<"b", "1">> >>},
      grid    : GridChoices ]

\* pages without a title, whose first <h1> is the first grid header: it sits in
\* the <div> of its grid cell
UntitledGridPages ==
    {[in EXCEPT !.h1 = Some(GridHeaders(in.grid)[1].header[1])] :
        in \in {x \in TitledPages :
                  x.h1 # None /\ x.parent /\ x.sibling = None /\ GridHeaders(x.grid) # <<>>}}

DetailPages == {in \in TitledPages \cup UntitledGridPages : Consistent(in)}

FailingPages ==
    [ raises  : {"fetch"},
      exc     : RequestExceptions \cup OtherExceptions,
      h1      : {None},
      parent  : {FALSE},
      sibling : {None},
      classp  : {None},
      dl      : {FALSE},
      dl_dts  : {<<>>},
      dl_dds  : {<<>>},
      cls_dts : {<<>>},
      cls_dds : {<<>>},
      grid    : {<<>>} ]
    \cup
    {in \in
        [ raises  : {"soup", "fields"},
          exc     : OtherExceptions,
          h1      : H1Choices,
          parent  : BOOLEAN,
          sibling : {None},
          classp  : {None, Some(<<"About", " ", "iris">>)},
          dl      : {TRUE},
          dl_dts  : {<< <<"Instances">> >>},
          dl_dds  : {<< <<"a", "1">> >>},
          cls_dts : {<<>>},
          cls_dds : {<<>>},
          grid    : {<<>>} ] : Consistent(in)}

ParseInputs == DetailPages \cup FailingPages

\* metadata[key] = value
DictSet(d, key, value) ==
    [k \in (DOMAIN d) \cup {key} |-> IF k = key THEN value ELSE d[k]]

\* name = name_element.text.strip() if name_element else "N/A"
NameOf(h1) == IF h1 # None THEN Strip(h1[1]) ELSE NA

\* lines 103-110: the description
DescriptionOf(in) ==
    IF in.h1 # None /\ in.parent
    THEN LET description_element == IF in.sibling # None THEN in.sibling ELSE in.classp
         IN  IF description_element # None THEN Strip(description_element[1]) ELSE NA
    ELSE NA

\* lines 119-126: the <dl> of the page when there is one, else the class-based
\* selectors
FirstLists(in) ==
    IF in.dl THEN [dts |-> in.dl_dts, dds |-> in.dl_dds]
    ELSE [dts |-> in.cls_dts, dds |-> in.cls_dds]

\* lines 134-140: the loop over metadata_divs, appending to dts and dds
RECURSIVE GridAppend(_, _)
GridAppend(lists, divs) ==
    IF divs = <<>> THEN lists
    ELSE LET div == Head(divs)
             next == IF div.header # None /\ div.value # None
                     THEN [dts |-> Append(lists.dts, div.header[1]),
                           dds |-> Append(lists.dds, div.value[1])]
                     ELSE lists
         IN  GridAppend(next, Tail(divs))

\* lines 115-140: the dts and dds the loop of line 143 runs over
CollectedLists(in) ==
    LET first == FirstLists(in)
    IN  IF first.dts = <<>> THEN GridAppend(first, in.grid) ELSE first

\* zip(dts, dds)
Zip(dts, dds) ==
    LET n == IF Len(dts) < Len(dds) THEN Len(dts) ELSE Len(dds)
    IN  [i \in 1..n |-> <<dts[i], dds[i]>>]

\* lines 143-153: the pairs copied into metadata
RECURSIVE ProcessPairs(_, _)
ProcessPairs(md, pairs) ==
    IF pairs = <<>> THEN md
    ELSE LET stripped == Strip(Head(pairs)[1])
             value    == Strip(Head(pairs)[2])
             key      == IF StartsWith(stripped, <<"#", " ">>)
                         THEN SubSeq(stripped, 3, Len(stripped))
                         ELSE stripped
             next     == IF key # <<>> /\ value # <<>> /\ value # <<"-">>
                         THEN DictSet(md, key, value)
                         ELSE md
         IN  ProcessPairs(next, Tail(pairs))

\* the metadata of line 112
BaseRecord(name, url, description) ==
    (KeyName :> name) @@ (KeyUrl :> url) @@ (KeyDescription :> description)

\* faulty variant of Handler: only the first except clause is there
HandlerRequestOnly(exc) ==
    IF exc \in RequestExceptions THEN "request" ELSE "propagate"

\* the except clause that takes an exception raised in the try, lines 156-162
Handler(exc) ==
    IF exc \in RequestExceptions THEN "request"
    ELSE IF exc \in OtherExceptions THEN "parsing"
    ELSE "propagate"

\* parse_dataset_page(url) on a page described by in
ParseDatasetPage(url, in) ==
    LET name == IF in.raises \in {"fetch", "soup"} THEN NA ELSE NameOf(in.h1)
        lists == CollectedLists(in)
    IN  IF in.raises = "no"
        THEN [kind |-> "record",
              record |-> ProcessPairs(BaseRecord(name, url, DescriptionOf(in)),
                                      Zip(lists.dts, lists.dds))]
        ELSE IF Handler(in.exc) = "request"
        THEN [kind |-> "record", record |-> (KeyName :> name) @@ (KeyUrl :> url)]
        ELSE IF Handler(in.exc) = "parsing"
        THEN [kind |-> "record",
              record |-> (KeyName :> name) @@ (KeyUrl :> url) @@ (KeyDescription :> ParseErrorText)]
        ELSE [kind |-> "raised", record |-> <<>>]

NoParseInput == CHOOSE in \in FailingPages : TRUE

IdleParse == p_input = NoParseInput /\ p_result = [kind |-> "idle", record |-> <<>>]

InitParse ==
    /\ p_input \in ParseInputs
    /\ p_result = [kind |-> "called", record |-> <<>>]

parse_dataset_page ==
    /\ p_result.kind = "called"
    /\ p_result' = ParseDatasetPage(PageUrl, p_input)
    /\ UNCHANGED <<p_input, listerVars, resolveVars, extVars, dlVars>>

---------------------------------------------------------------------------
(* get_direct_download_link *)

StaticMarker == <<"/", "static", "/", "public", "/">>
ApiMarker == <<"/", "api", "/", "v1", "/", "datasets", "/">>

StaticZip == StaticMarker \o <<"53", "/", "iris", ".", "zip">>
StaticCsv == StaticMarker \o <<"53", "/", "iris", ".", "csv">>
ApiDownload == ApiMarker \o <<"53", "/", "download">>

\* hrefs of the anchors of a detail page: site-relative, absolute and
\* page-relative download links, and links that are no download links
DetailHrefs ==
    { StaticZip,
      BASE_URL \o StaticCsv,
      <<".", ".">> \o StaticZip,
      ApiDownload,
      BASE_URL \o ApiDownload,
      <<"/", "datasets">>,
      <<"/", "static", "/", "img", "/", "logo", ".", "png">> }

RECURSIVE SeqsUpTo(_, _)
SeqsUpTo(S, n) ==
    IF n = 0 THEN {<<>>}
    ELSE LET shorter == SeqsUpTo(S, n - 1)
         IN  shorter \cup {Append(q, x) : q \in shorter, x \in S}

\* what requests.get + raise_for_status gives for the detail page
ResolveInputs ==
    [status : {"ok"}, anchors : SeqsUpTo(DetailHrefs, MaxAnchors)]
    \cup [status : RequestExceptions, anchors : {<<>>}]

\* soup.select_one('a[href*="<marker>"]'): the first anchor in document order
\* whose href contains the marker, None when there is none
SelectOne(anchors, marker) ==
    LET hits == SelectSeq(anchors, LAMBDA h : Contains(h, marker))
    IN  IF hits = <<>> THEN None ELSE Some(Head(hits))

\* lines 33-37: the static file link, else the API endpoint link
DownloadLinkElement(anchors) ==
    IF SelectOne(anchors, StaticMarker) # None THEN SelectOne(anchors, StaticMarker)
    ELSE SelectOne(anchors, ApiMarker)

\* get_direct_download_link: None, or the link
GetDirectDownloadLink(in) ==
    IF in.status # "ok" THEN None
    ELSE LET download_link_element == DownloadLinkElement(in.anchors)
         IN  IF download_link_element # None
             THEN LET relative_link == download_link_element[1]
                  IN  IF StartsWith(relative_link, <<"/">>)
                      THEN Some(BASE_URL \o relative_link)
                      ELSE Some(relative_link)
             ELSE None

IdleResolve ==
    /\ r_input = [status |-> "ok", anchors |-> <<>>]
    /\ r_result = [kind |-> "idle", value |-> None]

InitResolve ==
    /\ r_input \in ResolveInputs
    /\ r_result = [kind |-> "called", value |-> None]

get_direct_download_link ==
    /\ r_result.kind = "called"
    /\ r_result' = [kind |-> "returned", value |-> GetDirectDownloadLink(r_input)]
    /\ UNCHANGED <<r_input, listerVars, parseVars, extVars, dlVars>>

---------------------------------------------------------------------------
(* download_datasets: the file extension, lines 89-92 *)

\* str.lower() on the tokens the links are made of
LowerTok(t) ==
    CASE t = "CSV" -> "csv"
      [] t = "Zip" -> "zip"
      [] t = "TXT" -> "txt"
      [] OTHER -> t
Lower(s) == [i \in 1..Len(s) |-> LowerTok(s[i])]

AllowedExtensions == {<<"zip">>, <<"csv">>, <<"rar">>, <<"tgz">>, <<"txt">>}

\* file_extension = direct_link.split('.')[-1].split('?')[0].lower(), and the
\* default of lines 90-92
FileExtension(direct_link) ==
    LET file_extension == Lower(Split(Last(Split(direct_link, ".")), "?")[1])
    IN  IF CharLen(file_extension) > 5 \/ file_extension \notin AllowedExtensions
        THEN <<"zip">>
        ELSE file_extension

LinkPrefixes == {BASE_URL \o StaticMarker \o <<"53", "/">>, <<".", ".">> \o StaticMarker}
LinkStems == {<<"iris">>, <<"iris", ".", "data">>, <<"download">>}
LinkSuffixes ==
    { <<>>, <<"/">>,
      <<".", "zip">>, <<".", "Zip">>, <<".", "csv">>, <<".", "CSV">>, <<".", "rar">>,
      <<".", "tgz">>, <<".", "txt">>, <<".", "html">>, <<".", "gz">>, <<".", "names">> }
LinkQueries ==
    { <<>>,
      <<"?", "v", "=", "1">>,
      <<"?", "v", "=", "1", ".", "2">>,
      <<"?", "file", "=", "iris", ".", "csv">> }

DirectLinks ==
    {p \o s \o x \o q : p \in LinkPrefixes, s \in LinkStems, x \in LinkSuffixes, q \in LinkQueries}

IdleExt == e_link = <<>> /\ e_ext = <<"idle">>

InitExt == e_link \in DirectLinks /\ e_ext = <<>>

file_extension ==
    /\ e_ext = <<>>
    /\ e_ext' = FileExtension(e_link)
    /\ UNCHANGED <<e_link, listerVars, parseVars, resolveVars, dlVars>>

---------------------------------------------------------------------------
(* download_datasets *)

DownloadDir == <<"datasets", "/">>

\* names of datasets, one token per character
DatasetNames ==
    { <<"a">>, <<"a", "!">>, <<"a", " ", "b">>, <<"a", "_", "b">> }

\* the rows of the metadata table: a name and the URL of its detail page
UrlOf(name) == BASE_URL \o <<"/", "dataset", "/">> \o name
Rows == {[name |-> n, url |-> UrlOf(n)] : n \in DatasetNames}

\* str.isalnum() on the characters the names are made of
IsAlnum(c) == c \in {"a", "b", "I", "r", "i", "s", "1", "2"}

\* lines 76-77: the base of the file name
SafeName(name) ==
    LET kept == SelectSeq(name, LAMBDA c : IsAlnum(c) \/ c \in {" ", "_", "-"})
        stripped == RStrip(kept)
    IN  [i \in 1..Len(stripped) |-> IF stripped[i] = " " THEN "_" ELSE stripped[i]]

\* line 94: os.path.join(download_dir, f"{safe_name}.{file_extension}")
OutputFilename(name, direct_link) ==
    DownloadDir \o SafeName(name) \o <<".">> \o FileExtension(direct_link)

\* faulty variant of PathExists: the check for an existing file is missing
PathExistsNever(d, path) == FALSE

\* os.path.exists(output_filename)
PathExists(d, path) == path \in DOMAIN d

\* the detail pages get_direct_download_link is given in a run
DownloadPages ==
    { [status |-> "ConnectionError", anchors |-> <<>>],
      [status |-> "ok", anchors |-> <<>>],
      [status |-> "ok", anchors |-> <<StaticZip>>],
      [status |-> "ok", anchors |-> <<ApiDownload, BASE_URL \o StaticCsv>>],
      [status |-> "ok", anchors |-> << <<".", ".">> \o StaticZip >>] }

\* how the transfer of lines 105-113 ends for a link requests accepts:
\*   ok                    the body is written and the file closed
\*   HTTPError             raise_for_status raises, before the file is opened
\*   ChunkedEncodingError  iter_content raises after the file is opened
\*   OSError               f.write raises after the file is opened
TransferOutcomes == {"ok", "HTTPError", "ChunkedEncodingError", "OSError"}
\* requests.get raises MissingSchema for a link without a scheme
OutcomesFor(direct_link) ==
    IF StartsWith(direct_link, <<"https:", "/", "/">>) THEN TransferOutcomes
    ELSE {"MissingSchema"}

TransferRequestExceptions == {"HTTPError", "ChunkedEncodingError", "MissingSchema"}
TransferOtherExceptions == {"OSError"}
\* the outcomes in which open(output_filename, 'wb') has run
OpensFile(outcome) == outcome \in {"ok", "ChunkedEncodingError", "OSError"}

\* faulty variant of TransferHandler: only requests' exceptions are caught
TransferHandlerRequestOnly(exc) ==
    IF exc \in TransferRequestExceptions THEN "request" ELSE "propagate"

\* the except clause that takes an exception of the try of line 105
TransferHandler(exc) ==
    IF exc \in TransferRequestExceptions THEN "request"
    ELSE IF exc \in TransferOtherExceptions THEN "unexpected"
    ELSE "propagate"

\* the files an earlier run can have left in the directory
EarlierFile == [src |-> <<"earlier", " ", "run">>, state |-> "complete"]
InitialDisks ==
    { <<>>,
      (DownloadDir \o <<"a", ".", "zip">>) :> EarlierFile }

Event(ev, i, arg) == [ev |-> ev, i |-> i, arg |-> arg]
Report(ok, total) == [ev |-> "report", i |-> ok, arg |-> <<total>>]
NoLast == [i |-> 0, path |-> <<>>, link |-> None, existed |-> FALSE, outcome |-> "none"]

IdleDownload ==
    /\ metadata = <<>> /\ index = 0 /\ disk = <<>> /\ disk0 = <<>>
    /\ successful_downloads = 0 /\ log = <<>> /\ last = NoLast /\ d_pc = "idle"

\* lines 63-69, and the report of line 126 when the table is empty
InitDownload ==
    /\ metadata \in SeqsUpTo(Rows, MaxRecords)
    /\ index = 0
    /\ disk0 \in InitialDisks
    /\ disk = disk0
    /\ successful_downloads = 0
    /\ last = NoLast
    /\ log = IF metadata = <<>> THEN <<Report(0, 0)>> ELSE <<>>
    /\ d_pc = IF metadata = <<>> THEN "done" ELSE "loop"

\* what ends the pass for one row: the next row, or the report after the last
Finish(i, events, ok, aborted) ==
    /\ index' = i
    /\ successful_downloads' = ok
    /\ d_pc' = IF aborted THEN "aborted" ELSE IF i = Len(metadata) THEN "done" ELSE "loop"
    /\ log' = log \o events
              \o (IF ~aborted /\ i = Len(metadata) THEN <<Report(ok, Len(metadata))>> ELSE <<>>)

\* one pass of the for loop of download_datasets, lines 71-124, with the
\* report of line 126 after the last row
download_datasets ==
    /\ d_pc = "loop"
    /\ index < Len(metadata)
    /\ \E page \in DownloadPages :
        LET i == index + 1
            row == metadata[i]
            direct_link == GetDirectDownloadLink(page)
        IN  IF direct_link = None
            THEN \* lines 84-86
                 /\ Finish(i, <<Event("get_page", i, row.url), Event("warning", i, <<>>)>>,
                           successful_downloads, FALSE)
                 /\ last' = [i |-> i, path |-> <<>>, link |-> None, existed |-> FALSE,
                             outcome |-> "unresolved"]
                 /\ disk' = disk
            ELSE LET output_filename == OutputFilename(row.name, direct_link[1])
                 IN  IF PathExists(disk, output_filename)
                     THEN \* lines 97-101
                          /\ Finish(i, <<Event("get_page", i, row.url),
                                         Event("skip", i, output_filename),
                                         Event("sleep", i, <<"0", ".", "1">>)>>,
                                    successful_downloads + 1, FALSE)
                          /\ last' = [i |-> i, path |-> output_filename, link |-> direct_link,
                                      existed |-> TRUE, outcome |-> "skipped"]
                          /\ disk' = disk
                     ELSE \* lines 105-124
                          \E outcome \in OutcomesFor(direct_link[1]) :
                            LET opened == IF OpensFile(outcome)
                                          THEN <<Event("open", i, output_filename)>> ELSE <<>>
                                aborted == outcome # "ok" /\ TransferHandler(outcome) = "propagate"
                                ending == IF outcome = "ok"
                                          THEN <<Event("saved", i, output_filename)>>
                                          ELSE <<Event("error", i, <<outcome>>)>>
                                wait == IF aborted THEN <<>> ELSE <<Event("sleep", i, <<"1">>)>>
                            IN  /\ Finish(i, <<Event("get_page", i, row.url),
                                               Event("get_file", i, output_filename)>>
                                             \o opened \o ending \o wait,
                                          IF outcome = "ok" THEN successful_downloads + 1
                                          ELSE successful_downloads,
                                          aborted)
                                /\ last' = [i |-> i, path |-> output_filename, link |-> direct_link,
                                            existed |-> FALSE, outcome |-> outcome]
                                /\ disk' = IF OpensFile(outcome)
                                           THEN (output_filename :>
                                                   [src |-> direct_link[1],
                                                    state |-> IF outcome = "ok" THEN "complete"
                                                              ELSE "partial"]) @@ disk
                                           ELSE disk
    /\ UNCHANGED <<metadata, disk0, listerVars, parseVars, resolveVars, extVars>>

---------------------------------------------------------------------------
(* Specifications: one per function *)

ListerInit   == InitLister /\ IdleParse /\ IdleResolve /\ IdleExt /\ IdleDownload
ParseInit    == InitParse /\ IdleLister /\ IdleResolve /\ IdleExt /\ IdleDownload
ResolveInit  == InitResolve /\ IdleLister /\ IdleParse /\ IdleExt /\ IdleDownload
ExtInit      == InitExt /\ IdleLister /\ IdleParse /\ IdleResolve /\ IdleDownload
DownloadInit == InitDownload /\ IdleLister /\ IdleParse /\ IdleResolve /\ IdleExt

SpecLister   == ListerInit /\ [][get_dataset_links]_vars
SpecParse    == ParseInit /\ [][parse_dataset_page]_vars
SpecResolve  == ResolveInit /\ [][get_direct_download_link]_vars
SpecExt      == ExtInit /\ [][file_extension]_vars
SpecDownload == DownloadInit /\ [][download_datasets]_vars

---------------------------------------------------------------------------
(* Properties *)

\* the number of matching links of the k-th page fetched
LinkCount(k) == Len(PageLinks(pages[k].hrefs))
\* the matching links of the pages fetched and answered
FetchedLinks ==
    UNION {Range(PageLinks(pages[k].hrefs)) : k \in {j \in 1..Len(pages) : pages[j].status = "ok"}}

\* C1: get_dataset_links fetches the pages at offsets 0, take, 2*take, ... in
\* increasing order; after a page with exactly take matching links it goes on
\* to the next offset; at the first page with fewer than take matching links
\* (zero included) or whose request fails it stops and returns the union of the
\* matching links of the pages fetched so far, each link once.
C1_PaginationStopsAtShortPage ==
    LET n == Len(pages)
    IN  /\ \A k \in 1..n : pages[k].skip = (k - 1) * take
        /\ \A k \in 1..n :
              (pages[k].status = "ok" /\ LinkCount(k) = take)
                  => (k < n \/ (l_pc = "loop" /\ skip = n * take))
        /\ \A k \in 1..n :
              (pages[k].status # "ok" \/ LinkCount(k) < take)
                  => (k = n /\ l_pc = "returned")
        /\ l_pc = "returned" =>
              /\ n >= 1
              /\ pages[n].status # "ok" \/ LinkCount(n) < take
              /\ \A x \in BagToSet(links) : CopiesIn(x, links) = 1
              /\ BagToSet(links) = FetchedLinks

\* witness of C1: the run returned after three pages, the first two full and
\* sharing a link, with more than one link collected
C1_Witness ==
    /\ l_pc = "returned"
    /\ Len(pages) = 3
    /\ pages[3].status = "ok"
    /\ LinkCount(1) = take
    /\ Range(PageLinks(pages[1].hrefs)) \cap Range(PageLinks(pages[2].hrefs)) # {}
    /\ Cardinality(BagToSet(links)) > 1

\* C2: parse_dataset_page never raises: whatever the fetch and the parsing do,
\* it returns a record, and the record has both name and url.
C2_AlwaysReturnsNameAndUrl ==
    /\ p_result.kind # "raised"
    /\ p_result.kind \notin {"called", "idle"} =>
          /\ p_result.kind = "record"
          /\ {KeyName, KeyUrl} \subseteq DOMAIN p_result.record

\* witness of C2: an exception raised while the fields were extracted was turned
\* into a record
C2_Witness ==
    /\ p_input.raises = "fields"
    /\ p_result.kind = "record"
    /\ p_result.record[KeyName] = <<"Iris">>

\* the hrefs of the anchors matching a marker
Matching(anchors, marker) == {h \in Range(anchors) : Contains(h, marker)}
IsAbsoluteUrl(u) == StartsWith(u, <<"https:", "/", "/">>) \/ StartsWith(u, <<"http:", "/", "/">>)

\* C3: get_direct_download_link returns None when the fetch fails or no anchor
\* matches either marker; otherwise it returns an absolute URL, that of a
\* static-file anchor when there is one and of an API-endpoint anchor only when
\* there is none, a relative href being prefixed with the site origin.
C3_ReturnsAbsoluteUrl ==
    r_result.kind = "returned" =>
        LET static == Matching(r_input.anchors, StaticMarker)
            api    == Matching(r_input.anchors, ApiMarker)
            from   == IF static # {} THEN static ELSE api
        IN  IF r_input.status # "ok" \/ from = {}
            THEN r_result.value = None
            ELSE /\ r_result.value # None
                 /\ IsAbsoluteUrl(r_result.value[1])
                 /\ \E h \in from :
                       r_result.value[1] = IF IsAbsoluteUrl(h) THEN h ELSE BASE_URL \o h

\* C4: download_datasets never requests the file for, and never opens, a
\* target path that exists when the record is reached: the directory is left
\* as it is and the record is counted as done.
C4_NeverRefetchesExistingFile ==
    [][ LET new == SubSeq(log', Len(log) + 1, Len(log'))
            touched == {k \in 1..Len(new) : new[k].ev \in {"get_file", "open"}}
        IN  /\ \A k \in touched : new[k].arg \notin DOMAIN disk
            /\ (last'.i = index + 1 /\ last'.link # None /\ last'.path \in DOMAIN disk)
                  => /\ touched = {}
                     /\ disk' = disk
                     /\ successful_downloads' = successful_downloads + 1
      ]_vars

\* witness of C4: a record was skipped because of a file written earlier in the
\* same run
C4_Witness ==
    /\ last.outcome = "skipped"
    /\ last.path \notin DOMAIN disk0
    /\ last.path \in DOMAIN disk
    /\ successful_downloads = 2

\* the rows have pairwise different names
DistinctNames == \A i, j \in 1..Len(metadata) : metadata[i].name = metadata[j].name => i = j
\* every link was resolved and no transfer failed
AllSucceeded == \A k \in 1..Len(log) : log[k].ev \notin {"warning", "error"}

\* C5: after a run on an empty directory in which every link resolution and
\* every transfer succeeds, the directory holds one file per record: as many
\* files as records, and as many as the reported success count.
C5_OneFilePerRecord ==
    (d_pc = "done" /\ disk0 = <<>> /\ DistinctNames /\ AllSucceeded) =>
        /\ Cardinality(DOMAIN disk) = Len(metadata)
        /\ Cardinality(DOMAIN disk) = successful_downloads

\* the requests for detail pages, in the order they were issued
PageRequests == SelectSeq(log, LAMBDA e : e.ev = "get_page")

\* C6: a failure of one record (unresolvable link, failed fetch of the detail
\* page, failed or interrupted transfer, error while writing) never aborts the
\* batch: the records are processed in input order, all of them, and the run
\* ends with the report of the success count.
C6_FailuresNeverAbort ==
    /\ d_pc # "aborted"
    /\ Len(PageRequests) = index
    /\ \A k \in 1..index : PageRequests[k].i = k /\ PageRequests[k].arg = metadata[k].url
    /\ d_pc = "loop" => index < Len(metadata)
    /\ index = Len(metadata) =>
          /\ d_pc = "done"
          /\ Last(log) = Report(successful_downloads, Len(metadata))

\* witness of C6: the run ended with its report although the write of an
\* earlier record's file failed
C6_Witness ==
    /\ d_pc = "done"
    /\ Last(log).ev = "report"
    /\ \E k \in 1..Len(log) :
          log[k].ev = "error" /\ log[k].arg = <<"OSError">> /\ log[k].i < Len(metadata)

\* the extension of the trailing path segment of a link: the text after the
\* last "." of the last "/"-separated piece of the link without its query
SegmentExtension(link) ==
    LET segment == Last(Split(Split(link, "?")[1], "/"))
        pieces  == Split(segment, ".")
    IN  IF Len(pieces) > 1 THEN Some(Lower(Last(pieces))) ELSE None

\* C7: the extension is one of zip, csv, rar, tgz, txt: the extension of the
\* link's trailing path segment when that is one of these, zip otherwise.
C7_ExtensionOfTrailingSegment ==
    e_ext # <<>> /\ e_ext # <<"idle">> =>
        LET ext == SegmentExtension(e_link)
        IN  /\ e_ext \in AllowedExtensions
            /\ e_ext = IF ext # None /\ ext[1] \in AllowedExtensions THEN ext[1] ELSE <<"zip">>

\* the pairs of each extraction strategy of parse_dataset_page
PairsA(in) == IF in.dl THEN Zip(in.dl_dts, in.dl_dds) ELSE <<>>
PairsB(in) == Zip(in.cls_dts, in.cls_dds)
PairsC(in) ==
    LET both == SelectSeq(in.grid, LAMBDA d : d.header # None /\ d.value # None)
    IN  [i \in 1..Len(both) |-> <<both[i].header[1], both[i].value[1]>>]
\* the record made of the pairs of the first strategy for which Yields holds
RecordOfFirst(in, Yields(_)) ==
    LET base == BaseRecord(NameOf(in.h1), PageUrl, DescriptionOf(in))
    IN  IF Yields(PairsA(in)) THEN ProcessPairs(base, PairsA(in))
        ELSE IF Yields(PairsB(in)) THEN ProcessPairs(base, PairsB(in))
        ELSE ProcessPairs(base, PairsC(in))

\* C8: the pairs of the record are those of the first of the strategies (a)
\* definition list, (b) class-qualified selectors, (c) header/paragraph grid
\* that yields any pairs, whether "yields" is read as finding a pair or as
\* finding a pair that is kept.
C8_FirstYieldingStrategy ==
    (p_result.kind = "record" /\ p_input.raises = "no") =>
        LET base == BaseRecord(NameOf(p_input.h1), PageUrl, DescriptionOf(p_input))
            finds(pairs) == pairs # <<>>
            keeps(pairs) == ProcessPairs(base, pairs) # base
        IN  \/ p_result.record = RecordOfFirst(p_input, finds)
            \/ p_result.record = RecordOfFirst(p_input, keeps)

\* C9: a delay precedes the first request of every record but the first: one
\* second after a record whose download was attempted or whose link could not
\* be resolved, a tenth of a second after a record skipped for its file.
C9_DelayAfterEveryRecord ==
    \A k \in 2..Len(log) :
        log[k].ev = "get_page" =>
            /\ log[k - 1].ev = "sleep"
            /\ log[k - 1].arg =
                  IF \E j \in 1..(k - 1) : log[j].ev = "skip" /\ log[j].i = log[k - 1].i
                  THEN <<"0", ".", "1">> ELSE <<"1">>

\* C10: a record whose transfer fails is not counted and leaves no file at its
\* target path.
C10_FailedTransferLeavesNoFile ==
    last.outcome \in (TransferRequestExceptions \cup TransferOtherExceptions) =>
        /\ last.path \notin DOMAIN disk
        /\ successful_downloads < last.i

=============================================================================
